---- MODULE Spec2Model ----
(***************************************************************************)
(* Model of sync.py, the BLE sync client of the Middle pendant.            *)
(*                                                                         *)
(* sync_recordings is a coroutine on a single asyncio event loop.  Each    *)
(* action below is the code that runs when one awaited call completes, up  *)
(* to the next await; pc names the await the coroutine is suspended in.    *)
(* The notification callback on_audio_data runs on the same loop while the *)
(* coroutine is suspended, so Deliver interleaves with the other actions   *)
(* exactly while a subscription is installed.                              *)
(*                                                                         *)
(* Exceptions follow Python >= 3.11, where asyncio.TimeoutError is the     *)
(* builtin TimeoutError caught at line 288.  An awaited transport call     *)
(* ends in one of: "ok", "timeout" (it raised TimeoutError) or "error"     *)
(* (it raised BleakError or any other exception).                          *)
(*                                                                         *)
(* The clock (now, transfer_start, wait_begin, wait_timeout) counts tenths *)
(* of a second, the resolution of the settle delay asyncio.sleep(0.1).     *)
(*                                                                         *)
(* Not modelled: log(), the tqdm progress bar, transfer_elapsed and the    *)
(* speed figure (display only), file names, the bytes of the MP3 and       *)
(* scan_count of main (it only paces a log line).                          *)
(*                                                                         *)
(* Spec is one call of sync_recordings, SpecLive the same call under the   *)
(* assumption that awaited calls return and timers fire, SpecMain the loop *)
(* of main around it, and SpecDecode the function decode_ima_adpcm.        *)
(***************************************************************************)
EXTENDS Integers, Sequences, FiniteSets, TLC

\* Program constants.
MAX_FILE_TRANSFER_ATTEMPTS == 3
TRANSFER_STALL_TIMEOUT_SECONDS == 2
TRANSFER_TOTAL_TIMEOUT_SECONDS == 120
IMA_HEADER_SIZE == 4

\* Clock ticks per second, and the program's durations in ticks.
TicksPerSecond == 10
StallTimeout == TRANSFER_STALL_TIMEOUT_SECONDS * TicksPerSecond
TotalTimeout == TRANSFER_TOTAL_TIMEOUT_SECONDS * TicksPerSecond
\* asyncio.sleep(0.1), line 245.
SettleDelay == 1

\* Bounds of the model.
MaxFiles == 2
MaxChunks == 2
MaxChunkLen == 3
MaxSize == 5
MaxDecLen == 6       \* bytes of ADPCM payload given to the decoder

\* Values the device and the transport are allowed to produce.
FileCounts == 0..MaxFiles
Sizes == {0, 2, MaxSize}
ChunkLens == {0, MaxChunkLen}
CallOutcomes == {"ok", "timeout", "error"}
\* Ticks an awaited GATT write or read can take before it completes:
\* no time, or one second less than the total timeout.
Delays == {0, TotalTimeout - TicksPerSecond}
\* size_read when FILE_INFO has not been read in the current attempt.
NoSize == 0 - 1

VARIABLES
    pc,                   \* the await sync_recordings is suspended in
    openai_client,        \* TRUE: a client was passed, FALSE: None
    file_count,
    i,
    attempt,
    audio_data,
    expected_size,
    chunk_count,
    received_chunks,
    received_total_bytes,
    chunk_received,       \* the asyncio.Event: TRUE when set
    exc,                  \* how the try block of the attempt was left
    synced,
    saved_recordings,     \* indices whose MP3 was written
    skip_transcription,
    subscriptions,        \* callbacks installed on AUDIO_DATA
    now,                  \* time.monotonic(), in seconds
    transfer_start,
    wait_timeout,         \* timeout of the wait_for in progress
    wait_begin,           \* time at which that wait_for was started
    \* History of what the device, the transport and the code did.
    last_cmd,             \* the last write to the command characteristic
    sync_done_writes,     \* SYNC_DONE writes of the session
    ack_failed,           \* the ACK of a saved recording failed
    delivered,            \* chunks notified since the attempt began
    size_read,            \* FILE_INFO value read in this attempt
    timed_out,            \* which timeout ended this attempt, if any
    bytes_at_timeout,     \* received_total_bytes when it fired
    prev_bytes,           \* bytes the previous attempt had received
    fails,                \* attempts of this index that gave no payload
    attempt_start,        \* time the attempt's REQUEST_NEXT was issued
    sizes_seen,           \* FILE_INFO values read for the current index
    requests,             \* REQUEST_NEXT writes since the last ACK write
    acks_ok,              \* ACK_RECEIVED writes that succeeded
    acked_saved,          \* those of them that followed a saved recording
    auth_failed,          \* a transcription raised AuthenticationError
    error,                \* the exception that left sync_recordings
    \* main.
    main_pc,              \* where main is: scanning, connecting, in a session
    \* decode_ima_adpcm.
    dec_pc,
    ima_data,             \* the argument data of decode_ima_adpcm
    sample_count,
    sample_index,         \* the loop variable i of the decoder
    predicted_sample,
    step_index,
    output,
    write_position,
    pcm                   \* the bytes returned

bufVars == <<received_chunks, chunk_count, received_total_bytes, delivered>>
attVars == <<attempt, expected_size, size_read, prev_bytes>>
endVars == <<timed_out, bytes_at_timeout>>
attemptVars == <<bufVars, attVars, endVars, exc, chunk_received>>
waitVars == <<wait_timeout, wait_begin>>
clockVars == <<now, transfer_start, attempt_start>>
sessionVars == <<openai_client, file_count, synced, saved_recordings,
                 skip_transcription>>
notifyVars == <<subscriptions>>
logVars == <<last_cmd, sync_done_writes, ack_failed>>
fileVars == <<i, audio_data, fails, sizes_seen>>
histVars == <<requests, acks_ok, acked_saved, auth_failed>>
decVars == <<dec_pc, ima_data, sample_count, sample_index, predicted_sample,
             step_index, output, write_position, pcm>>
outerVars == <<main_pc, decVars>>
syncVars == <<pc, fileVars, attemptVars, waitVars, clockVars, sessionVars,
              notifyVars, logVars, histVars, error>>
vars == <<syncVars, outerVars>>

Min(a, b) == IF a < b THEN a ELSE b

RECURSIVE Join(_)
\* b"".join(chunks)
Join(chunks) ==
    IF chunks = <<>> THEN <<>> ELSE Head(chunks) \o Join(Tail(chunks))

\* audio_data[:size]
Prefix(data, size) == SubSeq(data, 1, Min(size, Len(data)))

\* A payload cut to the declared size from the wrong end.
Payload_KeepTail(chunks, size) ==
    LET data == Join(chunks)
    IN  SubSeq(data, Len(data) - Min(size, Len(data)) + 1, Len(data))

\* Lines 300-301: the payload of a finished transfer.
Payload(chunks, size) == Prefix(Join(chunks), size)

\* An attempt that counts as complete as soon as it has received anything.
TransferComplete_AnyBytes(total, size) == total > 0 /\ size > 0

\* Line 298: the attempt delivered the whole recording.
TransferComplete(total, size) == total >= size /\ size > 0

\* A wait that ignores the total deadline.
WaitTimeoutFor_StallOnly(remaining_total) == StallTimeout

\* Lines 283-286: the timeout handed to wait_for.
WaitTimeoutFor(remaining_total) ==
    Min(StallTimeout, remaining_total)

\* The j-th byte (from 0) the device streams in attempt a.  Every byte of a
\* session's attempt is distinct, so a dropped, repeated or stale byte shows.
ByteOf(a, j) == a * 16 + j
ByteAttempt(b) == b \div 16

\* The exceptions a failed call can raise: TimeoutError for "timeout";
\* BleakError or some other exception for "error".
ErrorOf(r) ==
    IF r = "timeout" THEN {"TimeoutError"} ELSE {"BleakError", "Exception"}

Command(name, index, ok) == [cmd |-> name, idx |-> index, ok |-> ok]
NoCommand == Command("none", 0, TRUE)

\* The decoder before it is called.
DecoderIdle ==
    /\ dec_pc = "idle"
    /\ ima_data = <<>>
    /\ sample_count = 0
    /\ sample_index = 0
    /\ predicted_sample = 0
    /\ step_index = 0
    /\ output = <<>>
    /\ write_position = 0
    /\ pcm = <<>>

\* Lines 171-177: the locals of sync_recordings before its first statement.
SyncLocals ==
    /\ file_count = 0
    /\ i = 0
    /\ attempt = 0
    /\ audio_data = <<>>
    /\ expected_size = 0
    /\ chunk_count = 0
    /\ received_chunks = <<>>
    /\ received_total_bytes = 0
    /\ chunk_received = FALSE
    /\ exc = "none"
    /\ synced = 0
    /\ saved_recordings = <<>>
    /\ skip_transcription = FALSE
    /\ subscriptions = 0
    /\ now = 0
    /\ transfer_start = 0
    /\ wait_timeout = 0
    /\ wait_begin = 0
    /\ last_cmd = NoCommand
    /\ sync_done_writes = 0
    /\ ack_failed = FALSE
    /\ delivered = <<>>
    /\ size_read = NoSize
    /\ timed_out = "no"
    /\ bytes_at_timeout = 0
    /\ prev_bytes = 0
    /\ fails = 0
    /\ attempt_start = 0
    /\ sizes_seen = {}
    /\ requests = 0
    /\ acks_ok = 0
    /\ acked_saved = 0
    /\ auth_failed = FALSE
    /\ error = "none"

Init ==
    /\ pc = "read_voltage"
    /\ openai_client \in BOOLEAN
    /\ main_pc = "sync"
    /\ DecoderIdle
    /\ SyncLocals

\* An attempt that keeps the buffer and the counters of the one before.
BeginAttempt_NoReset(a) ==
    /\ attempt' = a
    /\ chunk_received' = FALSE
    /\ expected_size' = 0
    /\ exc' = "none"
    /\ delivered' = <<>>
    /\ size_read' = NoSize
    /\ timed_out' = "no"
    /\ bytes_at_timeout' = 0
    /\ prev_bytes' = (IF a = 1 THEN 0 ELSE received_total_bytes)
    /\ pc' = "start_notify"
    /\ IF a = 1
       THEN received_chunks' = <<>> /\ chunk_count' = 0
            /\ received_total_bytes' = 0
       ELSE UNCHANGED <<received_chunks, chunk_count, received_total_bytes>>

\* Lines 205-217: the head of the attempt loop, up to the start_notify call.
BeginAttempt(a) ==
    /\ attempt' = a
    /\ received_chunks' = <<>>
    /\ chunk_received' = FALSE
    /\ expected_size' = 0
    /\ chunk_count' = 0
    /\ received_total_bytes' = 0
    /\ exc' = "none"
    /\ delivered' = <<>>
    /\ size_read' = NoSize
    /\ timed_out' = "no"
    /\ bytes_at_timeout' = 0
    /\ prev_bytes' = (IF a = 1 THEN 0 ELSE received_total_bytes)
    /\ pc' = "start_notify"

\* Lines 197-203: the head of the index loop.
BeginFile(index) ==
    /\ i' = index
    /\ audio_data' = <<>>
    /\ fails' = 0
    /\ sizes_seen' = {}
    /\ BeginAttempt(1)

\* Lines 178-182: the battery read; only BleakError is tolerated.
ReadVoltage ==
    /\ pc = "read_voltage"
    /\ \E r \in CallOutcomes : \E k \in ErrorOf(r) :
         IF r = "ok" \/ k = "BleakError"
         THEN pc' = "read_count" /\ UNCHANGED error
         ELSE pc' = "raised" /\ error' = k
    /\ UNCHANGED <<fileVars, attemptVars, waitVars, clockVars,
                   sessionVars, notifyVars, logVars, histVars, outerVars>>

\* A session that runs the index loop even for zero recordings.
ReadCount_NoEarlyReturn ==
    /\ pc = "read_count"
    /\ \E r \in CallOutcomes :
         IF r # "ok"
         THEN /\ pc' = "raised"
              /\ \E k \in ErrorOf(r) : error' = k
              /\ UNCHANGED <<fileVars, attemptVars, file_count,
                             synced, saved_recordings, skip_transcription>>
         ELSE \E n \in FileCounts, mkdir \in {"ok", "error"} :
                /\ file_count' = n
                /\ IF mkdir = "error"
                   THEN /\ pc' = "raised"
                        /\ error' = "Exception"
                        /\ UNCHANGED <<fileVars, attemptVars,
                                       synced, saved_recordings,
                                       skip_transcription>>
                   ELSE /\ synced' = 0
                        /\ saved_recordings' = <<>>
                        /\ skip_transcription' = FALSE
                        /\ UNCHANGED error
                        /\ IF n = 0
                           THEN /\ pc' = "sync_done"
                                /\ UNCHANGED <<fileVars, attemptVars>>
                           ELSE BeginFile(0)
    /\ UNCHANGED <<openai_client, waitVars, clockVars, notifyVars, logVars,
                   histVars, outerVars>>

\* Lines 184-197: the file-count read, the creation of the recordings
\* directory (line 191, which can raise) and the entry into the index loop.
ReadCount ==
    /\ pc = "read_count"
    /\ \E r \in CallOutcomes :
         IF r # "ok"
         THEN /\ pc' = "raised"
              /\ \E k \in ErrorOf(r) : error' = k
              /\ UNCHANGED <<fileVars, attemptVars, file_count,
                             synced, saved_recordings, skip_transcription>>
         ELSE \E n \in FileCounts, mkdir \in {"ok", "error"} :
                /\ file_count' = n
                /\ IF n = 0
                   THEN /\ pc' = "returned"
                        /\ UNCHANGED <<fileVars, attemptVars, error,
                                       synced, saved_recordings,
                                       skip_transcription>>
                   ELSE IF mkdir = "error"
                   THEN /\ pc' = "raised"
                        /\ error' = "Exception"
                        /\ UNCHANGED <<fileVars, attemptVars,
                                       synced, saved_recordings,
                                       skip_transcription>>
                   ELSE /\ synced' = 0
                        /\ saved_recordings' = <<>>
                        /\ skip_transcription' = FALSE
                        /\ BeginFile(0)
                        /\ UNCHANGED error
    /\ UNCHANGED <<openai_client, waitVars, clockVars, notifyVars, logVars,
                   histVars, outerVars>>

\* Lines 232-236: start_notify completes; it is outside the try block.
StartNotify ==
    /\ pc = "start_notify"
    /\ \E r \in CallOutcomes, d \in Delays :
         /\ now' = now + d
         /\ IF r = "ok"
            THEN /\ subscriptions' = subscriptions + 1
                 /\ transfer_start' = now'
                 /\ attempt_start' = now'
                 /\ pc' = "write_request"
                 /\ UNCHANGED error
            ELSE /\ pc' = "raised"
                 /\ \E k \in ErrorOf(r) : error' = k
                 /\ UNCHANGED <<subscriptions, transfer_start,
                                attempt_start>>
    /\ UNCHANGED <<fileVars, attemptVars, waitVars, sessionVars, logVars,
                   histVars, outerVars>>

\* A try block whose finally clause is skipped when a call raised an error.
LeaveTry_NoFinally(kind) ==
    /\ pc' = (IF kind = "error" THEN "raised" ELSE "stop_notify")
    /\ exc' = kind

\* Lines 237-296: every way out of the try block runs the finally clause,
\* which awaits stop_notify.  kind is "none" (the while loop ended), "break"
\* (line 253), "timeout" (TimeoutError, caught at line 288) or "error" (any
\* other exception, re-raised after the finally clause).
LeaveTry(kind) ==
    /\ pc' = "stop_notify"
    /\ exc' = kind

\* Which timeout a wait_for that expired stands for.
WaitKind(timeout) ==
    IF timeout = StallTimeout THEN "stall" ELSE "total"

\* The loop without the test of the total deadline at its head.
LoopHead_NoDeadlineTest(total, size, t) ==
    LET remaining_total == TotalTimeout - (t - transfer_start)
    IN  IF total >= size
        THEN /\ LeaveTry("none")
             /\ wait_timeout' = 0 /\ wait_begin' = 0
             /\ UNCHANGED <<chunk_received, endVars>>
        ELSE /\ chunk_received' = FALSE
             /\ wait_timeout' = WaitTimeoutFor(remaining_total)
             /\ wait_begin' = t
             /\ pc' = "waiting"
             /\ UNCHANGED <<exc, endVars>>

\* Lines 274-287: the loop test, the deadline test and the start of the
\* next wait, evaluated at time t with total bytes received so far.
LoopHead(total, size, t) ==
    LET remaining_total == TotalTimeout - (t - transfer_start)
    IN  IF total >= size
        THEN /\ LeaveTry("none")
             /\ wait_timeout' = 0 /\ wait_begin' = 0
             /\ UNCHANGED <<chunk_received, endVars>>
        ELSE IF remaining_total <= 0
        THEN /\ LeaveTry("timeout")
             /\ timed_out' = "total"
             /\ bytes_at_timeout' = total
             /\ wait_timeout' = 0 /\ wait_begin' = 0
             /\ UNCHANGED chunk_received
        ELSE /\ chunk_received' = FALSE
             /\ wait_timeout' = WaitTimeoutFor(remaining_total)
             /\ wait_begin' = t
             /\ pc' = "waiting"
             /\ UNCHANGED <<exc, endVars>>

\* Lines 238-241: the REQUEST_NEXT write completes.
WriteRequest ==
    /\ pc = "write_request"
    /\ \E r \in CallOutcomes, d \in Delays :
         /\ now' = now + d
         /\ last_cmd' = Command("REQUEST_NEXT", i, r = "ok")
         /\ requests' = requests + 1
         /\ IF r = "ok"
            THEN pc' = "sleep" /\ UNCHANGED <<exc, endVars>>
            ELSE /\ LeaveTry(r)
                 /\ timed_out' = (IF r = "timeout" THEN "transport" ELSE "no")
                 /\ bytes_at_timeout' = received_total_bytes
    /\ UNCHANGED <<fileVars, bufVars, attVars, chunk_received, waitVars,
                   transfer_start, attempt_start, sessionVars, notifyVars,
                   sync_done_writes, ack_failed, acks_ok, acked_saved,
                   auth_failed, error, outerVars>>

\* Line 245: the settle delay of 0.1 s ends.
Sleep ==
    /\ pc = "sleep"
    /\ pc' = "read_info"
    /\ now' = now + SettleDelay
    /\ UNCHANGED <<fileVars, attemptVars, waitVars, transfer_start,
                   attempt_start, sessionVars, notifyVars, logVars, histVars,
                   error, outerVars>>

\* Lines 246-280: the FILE_INFO read completes; a size of 0 breaks out of
\* the attempt loop, any other size enters the streaming loop.
ReadInfo ==
    /\ pc = "read_info"
    /\ \E r \in CallOutcomes, d \in Delays :
         /\ now' = now + d
         /\ IF r = "ok"
            THEN \E s \in Sizes :
                   /\ expected_size' = s
                   /\ size_read' = s
                   /\ sizes_seen' = sizes_seen \cup {s}
                   /\ IF s = 0
                      THEN /\ LeaveTry("break")
                           /\ UNCHANGED <<chunk_received, endVars, waitVars>>
                      ELSE LoopHead(received_total_bytes, s, now + d)
            ELSE /\ LeaveTry(r)
                 /\ timed_out' = (IF r = "timeout" THEN "transport" ELSE "no")
                 /\ bytes_at_timeout' = received_total_bytes
                 /\ UNCHANGED <<expected_size, size_read, sizes_seen,
                                chunk_received, waitVars>>
    /\ UNCHANGED <<i, audio_data, fails, bufVars, attempt, prev_bytes,
                   transfer_start, attempt_start, sessionVars, notifyVars,
                   logVars, histVars, error, outerVars>>

\* Time passes while wait_for is pending and no chunk has arrived: a
\* second, or what is left until the wait expires.
Tick ==
    /\ pc = "waiting"
    /\ ~chunk_received
    /\ now < wait_begin + wait_timeout
    /\ now' = Min(now + TicksPerSecond, wait_begin + wait_timeout)
    /\ UNCHANGED <<pc, fileVars, attemptVars, waitVars, transfer_start,
                   attempt_start, sessionVars, notifyVars, logVars, histVars,
                   error, outerVars>>

\* Lines 274-287: wait_for returns because the event was set.
WaitReturn ==
    /\ pc = "waiting"
    /\ chunk_received
    /\ LoopHead(received_total_bytes, expected_size, now)
    /\ UNCHANGED <<fileVars, bufVars, attVars, clockVars, sessionVars,
                   notifyVars, logVars, histVars, error, outerVars>>

\* Lines 281-292: wait_for raises TimeoutError.  The timer releases
\* wait_for and the coroutine resumes in a later turn of the event loop; a
\* chunk notified in between sets the event and is counted, and wait_for
\* still raises.
WaitTimeout ==
    /\ pc = "waiting"
    /\ now = wait_begin + wait_timeout
    /\ LeaveTry("timeout")
    /\ timed_out' = WaitKind(wait_timeout)
    /\ bytes_at_timeout' = received_total_bytes
    /\ wait_timeout' = 0 /\ wait_begin' = 0
    /\ UNCHANGED <<fileVars, bufVars, attVars, chunk_received, clockVars,
                   sessionVars, notifyVars, logVars, histVars, error,
                   outerVars>>

\* A callback that ignores chunks until the declared size is known.
on_audio_data_DropEarly(data) ==
    IF expected_size = 0
    THEN /\ chunk_received' = TRUE
         /\ UNCHANGED <<received_chunks, chunk_count, received_total_bytes>>
    ELSE /\ received_chunks' = Append(received_chunks, data)
         /\ chunk_count' = chunk_count + 1
         /\ received_total_bytes' = received_total_bytes + Len(data)
         /\ chunk_received' = TRUE

\* Lines 219-230: the callback, called with one notified chunk.
on_audio_data(data) ==
    /\ received_chunks' = Append(received_chunks, data)
    /\ chunk_count' = chunk_count + 1
    /\ received_total_bytes' = received_total_bytes + Len(data)
    /\ chunk_received' = TRUE

\* The transport notifies a chunk: it calls the installed callback.  This
\* happens while sync_recordings is suspended in any await between
\* start_notify and the completion of stop_notify.
Deliver ==
    /\ subscriptions > 0
    /\ Len(delivered) < MaxChunks
    /\ \E n \in ChunkLens :
         LET sent == Len(Join(delivered))
             data == [k \in 1..n |-> ByteOf(attempt, sent + k - 1)]
         IN  /\ on_audio_data(data)
             /\ delivered' = Append(delivered, data)
    /\ UNCHANGED <<pc, fileVars, attVars, endVars, exc, waitVars, clockVars,
                   sessionVars, notifyVars, logVars, histVars, error,
                   outerVars>>

\* The code after the attempt loop without the branch for empty recordings.
AfterAttempts_NoEmptyAck(data) ==
    pc' = (IF Len(data) # expected_size THEN "raised" ELSE "encode")

\* Lines 304-316: after the attempt loop, with payload data.
AfterAttempts(data) ==
    pc' = (IF expected_size = 0 THEN "ack_empty"
           ELSE IF Len(data) # expected_size THEN "raised"
           ELSE "encode")

\* Lines 293-316: stop_notify completes; then the exception of the try block
\* is re-raised, or the attempt is judged by the bytes it has received.
\* time.monotonic() has an arbitrary origin and no timestamp of the attempt
\* decides anything once it is over, so the clock is re-based to 0 here.
StopNotify ==
    /\ pc = "stop_notify"
    /\ subscriptions' = subscriptions - 1
    /\ \E r \in CallOutcomes :
         IF r # "ok" \/ exc = "error"
         THEN /\ pc' = "raised"
              /\ \E k \in ErrorOf(IF r # "ok" THEN r ELSE exc) : error' = k
              /\ UNCHANGED <<fileVars, attemptVars>>
         ELSE IF TransferComplete(received_total_bytes, expected_size)
         THEN /\ audio_data' = Payload(received_chunks, expected_size)
              /\ AfterAttempts(audio_data')
              /\ error' = (IF pc' = "raised" THEN "RuntimeError" ELSE error)
              /\ UNCHANGED <<i, fails, sizes_seen, attemptVars>>
         ELSE IF exc = "break"
         THEN /\ AfterAttempts(audio_data)
              /\ error' = (IF pc' = "raised" THEN "RuntimeError" ELSE error)
              /\ UNCHANGED <<fileVars, attemptVars>>
         ELSE IF attempt < MAX_FILE_TRANSFER_ATTEMPTS
         THEN /\ BeginAttempt(attempt + 1)
              /\ fails' = fails + 1
              /\ UNCHANGED <<i, audio_data, sizes_seen, error>>
         ELSE /\ AfterAttempts(audio_data)
              /\ error' = (IF pc' = "raised" THEN "RuntimeError" ELSE error)
              /\ fails' = fails + 1
              /\ UNCHANGED <<i, audio_data, sizes_seen, attemptVars>>
    /\ now' = 0 /\ transfer_start' = 0 /\ attempt_start' = 0
    /\ UNCHANGED <<waitVars, sessionVars, logVars, histVars, outerVars>>

\* Lines 197 and 362: the next index, or the end of the index loop.
NextIndex ==
    IF i + 1 < file_count
    THEN BeginFile(i + 1)
    ELSE pc' = "sync_done" /\ UNCHANGED <<fileVars, attemptVars>>

\* A failed acknowledge of an empty recording that is ignored.
AckEmpty_Continue ==
    /\ pc = "ack_empty"
    /\ \E r \in CallOutcomes :
         /\ last_cmd' = Command("ACK_RECEIVED", i, r = "ok")
         /\ requests' = 0
         /\ synced' = (IF r = "ok" THEN synced + 1 ELSE synced)
         /\ acks_ok' = (IF r = "ok" THEN acks_ok + 1 ELSE acks_ok)
         /\ NextIndex
    /\ UNCHANGED <<openai_client, file_count, saved_recordings,
                   skip_transcription, waitVars, clockVars, notifyVars,
                   sync_done_writes, ack_failed, acked_saved, auth_failed,
                   error, outerVars>>

\* Lines 305-310: the ACK_RECEIVED write of an empty recording completes;
\* it is not guarded, so a failure propagates.
AckEmpty ==
    /\ pc = "ack_empty"
    /\ \E r \in CallOutcomes :
         /\ last_cmd' = Command("ACK_RECEIVED", i, r = "ok")
         /\ requests' = 0
         /\ IF r = "ok"
            THEN /\ synced' = synced + 1
                 /\ acks_ok' = acks_ok + 1
                 /\ NextIndex
                 /\ UNCHANGED error
            ELSE /\ pc' = "raised"
                 /\ \E k \in ErrorOf(r) : error' = k
                 /\ UNCHANGED <<synced, acks_ok, fileVars, attemptVars>>
    /\ UNCHANGED <<openai_client, file_count, saved_recordings,
                   skip_transcription, waitVars, clockVars, notifyVars,
                   sync_done_writes, ack_failed, acked_saved, auth_failed,
                   outerVars>>

\* A recording put on the list of saved recordings before it is encoded.
Encode_SaveFirst ==
    /\ pc = "encode"
    /\ \E r \in {"ok", "error"} :
         /\ (Len(audio_data) < IMA_HEADER_SIZE) => r = "error"
         /\ saved_recordings' = Append(saved_recordings, i)
         /\ pc' = (IF r = "ok" THEN "ack_write" ELSE "raised")
         /\ error' = (IF r = "ok" THEN error ELSE "Exception")
    /\ UNCHANGED <<fileVars, attemptVars, waitVars, clockVars, openai_client,
                   file_count, synced, skip_transcription, notifyVars,
                   logVars, histVars, outerVars>>

\* Lines 325-337: decode, encode and write the MP3.  The header unpack
\* raises on a payload shorter than the header; the encoder or the file
\* write can fail on any payload.
Encode ==
    /\ pc = "encode"
    /\ \E r \in {"ok", "error"} :
         /\ (Len(audio_data) < IMA_HEADER_SIZE) => r = "error"
         /\ IF r = "ok"
            THEN /\ saved_recordings' = Append(saved_recordings, i)
                 /\ pc' = "ack_write"
            ELSE /\ pc' = "raised"
                 /\ UNCHANGED saved_recordings
         /\ error' = (IF r = "ok" THEN error ELSE "Exception")
    /\ UNCHANGED <<fileVars, attemptVars, waitVars, clockVars, openai_client,
                   file_count, synced, skip_transcription, notifyVars,
                   logVars, histVars, outerVars>>

\* An acknowledge failure that is logged and then ignored.
AckWrite_Continue ==
    /\ pc = "ack_write"
    /\ \E r \in {"ok", "error"} :
         /\ last_cmd' = Command("ACK_RECEIVED", i, r = "ok")
         /\ ack_failed' = (r # "ok")
         /\ requests' = 0
         /\ acks_ok' = (IF r = "ok" THEN acks_ok + 1 ELSE acks_ok)
         /\ acked_saved' = (IF r = "ok" THEN acked_saved + 1 ELSE acked_saved)
         /\ IF r = "ok"
            THEN /\ synced' = synced + 1
                 /\ IF ~openai_client \/ skip_transcription
                    THEN NextIndex
                    ELSE pc' = "transcribe" /\ UNCHANGED <<fileVars, attemptVars>>
            ELSE /\ UNCHANGED synced
                 /\ NextIndex
    /\ UNCHANGED <<openai_client, file_count, saved_recordings,
                   skip_transcription, waitVars, clockVars, notifyVars,
                   sync_done_writes, auth_failed, error, outerVars>>

\* Lines 337-349: the ACK_RECEIVED write of a saved recording completes.
AckWrite ==
    /\ pc = "ack_write"
    /\ \E r \in {"ok", "error"} :
         /\ last_cmd' = Command("ACK_RECEIVED", i, r = "ok")
         /\ ack_failed' = (r # "ok")
         /\ requests' = 0
         /\ acks_ok' = (IF r = "ok" THEN acks_ok + 1 ELSE acks_ok)
         /\ acked_saved' = (IF r = "ok" THEN acked_saved + 1 ELSE acked_saved)
         /\ IF r = "ok"
            THEN /\ synced' = synced + 1
                 /\ IF ~openai_client \/ skip_transcription
                    THEN NextIndex
                    ELSE pc' = "transcribe" /\ UNCHANGED <<fileVars, attemptVars>>
            ELSE /\ pc' = "returned"
                 /\ UNCHANGED <<synced, fileVars, attemptVars>>
    /\ UNCHANGED <<openai_client, file_count, saved_recordings,
                   skip_transcription, waitVars, clockVars, notifyVars,
                   sync_done_writes, auth_failed, error, outerVars>>

\* Lines 351-360: the transcription ends: "ok", "auth" (AuthenticationError),
\* "openai" (another OpenAIError) or "error" (anything else, not caught).
Transcribe ==
    /\ pc = "transcribe"
    /\ \E r \in {"ok", "auth", "openai", "error"} :
         /\ skip_transcription' =
              (IF r \in {"auth", "openai"} THEN TRUE ELSE skip_transcription)
         /\ auth_failed' = (IF r = "auth" THEN TRUE ELSE auth_failed)
         /\ error' = (IF r = "error" THEN "Exception" ELSE error)
         /\ IF r = "error"
            THEN pc' = "raised" /\ UNCHANGED <<fileVars, attemptVars>>
            ELSE NextIndex
    /\ UNCHANGED <<openai_client, file_count, synced, saved_recordings,
                   waitVars, clockVars, notifyVars, logVars, requests,
                   acks_ok, acked_saved, outerVars>>

\* A SYNC_DONE failure that is not caught.
SyncDone_Raise ==
    /\ pc = "sync_done"
    /\ \E r \in {"ok", "error"} :
         /\ last_cmd' = Command("SYNC_DONE", i, r = "ok")
         /\ pc' = (IF r = "ok" THEN "returned" ELSE "raised")
         /\ error' = (IF r = "ok" THEN error ELSE "BleakError")
    /\ sync_done_writes' = sync_done_writes + 1
    /\ UNCHANGED <<fileVars, attemptVars, waitVars, clockVars, sessionVars,
                   notifyVars, ack_failed, histVars, outerVars>>

\* Lines 362-369: the SYNC_DONE write completes; a failure is only logged.
SyncDone ==
    /\ pc = "sync_done"
    /\ \E r \in {"ok", "error"} :
         last_cmd' = Command("SYNC_DONE", i, r = "ok")
    /\ sync_done_writes' = sync_done_writes + 1
    /\ pc' = "returned"
    /\ UNCHANGED <<fileVars, attemptVars, waitVars, clockVars, sessionVars,
                   notifyVars, ack_failed, histVars, error, outerVars>>

Next ==
    \/ ReadVoltage
    \/ ReadCount
    \/ StartNotify
    \/ WriteRequest
    \/ Sleep
    \/ ReadInfo
    \/ Tick
    \/ WaitReturn
    \/ WaitTimeout
    \/ Deliver
    \/ StopNotify
    \/ AckEmpty
    \/ Encode
    \/ AckWrite
    \/ Transcribe
    \/ SyncDone

Spec == Init /\ [][Next]_vars

\* Every step of sync_recordings itself: an awaited call returns or raises,
\* a second of a pending wait passes, a wait ends.  The delivery of a chunk
\* is the pendant's step and is not among them.
CallsReturn ==
    \/ ReadVoltage
    \/ ReadCount
    \/ StartNotify
    \/ WriteRequest
    \/ Sleep
    \/ ReadInfo
    \/ Tick
    \/ WaitReturn
    \/ WaitTimeout
    \/ StopNotify
    \/ AckEmpty
    \/ Encode
    \/ AckWrite
    \/ Transcribe
    \/ SyncDone

\* One call under the assumption that transport calls return and that the
\* event loop resumes the coroutine: nothing is said about chunks arriving.
SpecLive == Spec /\ WF_vars(CallsReturn)

(***************************************************************************)
(* main (lines 372-414): scan, connect, run one session, and go back to    *)
(* scanning.  The locals of sync_recordings die when the call ends, so     *)
(* they are put back to their initial values when main resumes scanning.   *)
(***************************************************************************)

\* The exception types main catches around the session (lines 404, 408).
CaughtByMain == {"TimeoutError", "BleakError"}

InitMain ==
    /\ main_pc = "scan"
    /\ pc = "idle"
    /\ openai_client = FALSE
    /\ DecoderIdle
    /\ SyncLocals

\* Lines 380-390: one scan.  No device: scan again.  discover is awaited
\* outside the try block, so an exception of it leaves main.
Discover ==
    /\ main_pc = "scan"
    /\ \E r \in {"found", "none", "timeout", "error"} :
         /\ main_pc' = (CASE r = "found" -> "connect"
                          [] r = "none" -> "scan"
                          [] OTHER -> "crashed")
         /\ IF r \in {"timeout", "error"}
            THEN \E k \in ErrorOf(r) : error' = k
            ELSE UNCHANGED error
    /\ UNCHANGED <<pc, fileVars, attemptVars, waitVars, clockVars,
                   sessionVars, notifyVars, logVars, histVars, decVars>>

\* Lines 395-399: create_openai_client, then BleakClient.__aenter__.
\* A connection that fails with TimeoutError or BleakError resumes the scan.
Connect ==
    /\ main_pc = "connect"
    /\ openai_client' \in BOOLEAN
    /\ \E r \in CallOutcomes : \E k \in ErrorOf(r) :
         IF r = "ok"
         THEN /\ main_pc' = "sync"
              /\ pc' = "read_voltage"
              /\ UNCHANGED error
         ELSE /\ main_pc' = (IF k \in CaughtByMain THEN "scan" ELSE "crashed")
              /\ error' = (IF k \in CaughtByMain THEN error ELSE k)
              /\ UNCHANGED pc
    /\ UNCHANGED <<fileVars, attemptVars, waitVars, clockVars, file_count,
                   synced, saved_recordings, skip_transcription, notifyVars,
                   logVars, histVars, decVars>>

\* Main is scanning again with no session in progress.
ResumeScan ==
    /\ main_pc' = "scan"
    /\ pc' = "idle"
    /\ openai_client' = FALSE
    /\ file_count' = 0
    /\ i' = 0
    /\ attempt' = 0
    /\ audio_data' = <<>>
    /\ expected_size' = 0
    /\ chunk_count' = 0
    /\ received_chunks' = <<>>
    /\ received_total_bytes' = 0
    /\ chunk_received' = FALSE
    /\ exc' = "none"
    /\ synced' = 0
    /\ saved_recordings' = <<>>
    /\ skip_transcription' = FALSE
    /\ subscriptions' = 0
    /\ now' = 0
    /\ transfer_start' = 0
    /\ wait_timeout' = 0
    /\ wait_begin' = 0
    /\ last_cmd' = NoCommand
    /\ sync_done_writes' = 0
    /\ ack_failed' = FALSE
    /\ delivered' = <<>>
    /\ size_read' = NoSize
    /\ timed_out' = "no"
    /\ bytes_at_timeout' = 0
    /\ prev_bytes' = 0
    /\ fails' = 0
    /\ attempt_start' = 0
    /\ sizes_seen' = {}
    /\ requests' = 0
    /\ acks_ok' = 0
    /\ acked_saved' = 0
    /\ auth_failed' = FALSE
    /\ error' = "none"

\* The end of the async with block (line 397): BleakClient.__aexit__ is
\* awaited, and an exception of the disconnect replaces the one in flight.
\* in_flight is "none" when the block ended normally.  What leaves the
\* block is caught by lines 404-411 or leaves main.
LeaveSession(in_flight) ==
    \E r \in CallOutcomes : \E k \in ErrorOf(r) :
        LET leaving == IF r = "ok" THEN in_flight ELSE k
        IN  IF leaving = "none" \/ leaving \in CaughtByMain
            THEN ResumeScan
            ELSE /\ main_pc' = "crashed"
                 /\ UNCHANGED syncVars

\* Lines 399-403 and 413-414: sync_recordings returned.
SessionReturn ==
    /\ main_pc = "sync"
    /\ pc = "returned"
    /\ LeaveSession("none")
    /\ UNCHANGED decVars

\* Lines 404-411: sync_recordings raised.  Only TimeoutError and BleakError
\* are caught; any other exception leaves main and asyncio.run.
SessionRaise ==
    /\ main_pc = "sync"
    /\ pc = "raised"
    /\ LeaveSession(error)
    /\ UNCHANGED decVars

NextMain ==
    \/ Discover
    \/ Connect
    \/ SessionReturn
    \/ SessionRaise
    \/ Next

SpecMain == InitMain /\ [][NextMain]_vars

(***************************************************************************)
(* decode_ima_adpcm (lines 64-122).  One step is one turn of the for loop. *)
(* output is the bytearray of 2 * sample_count zero bytes, indexed from 1  *)
(* here, and write_position counts the bytes written so far.               *)
(***************************************************************************)

ADPCM_STEP_TABLE ==
    <<7, 8, 9, 10, 11, 12, 13, 14, 16, 17, 19, 21, 23, 25, 28, 31, 34, 37,
      41, 45, 50, 55, 60, 66, 73, 80, 88, 97, 107, 118, 130, 143, 157, 173,
      190, 209, 230, 253, 279, 307, 337, 371, 408, 449, 494, 544, 598, 658,
      724, 796, 876, 963, 1060, 1166, 1282, 1411, 1552, 1707, 1878, 2066,
      2272, 2499, 2749, 3024, 3327, 3660, 4026, 4428, 4871, 5358, 5894, 6484,
      7132, 7845, 8630, 9493, 10442, 11487, 12635, 13899, 15289, 16818, 18500,
      20350, 22385, 24623, 27086, 29794, 32767>>

ADPCM_INDEX_TABLE ==
    <<0 - 1, 0 - 1, 0 - 1, 0 - 1, 2, 4, 6, 8,
      0 - 1, 0 - 1, 0 - 1, 0 - 1, 2, 4, 6, 8>>

\* Payload bytes tried: no bit set, all magnitude bits, sign and all
\* magnitude bits, and nibbles 9 and 2 (single magnitude bits).
DecBytes == {0, 119, 255, 41}
DecInputs == UNION {[1..n -> DecBytes] : n \in 0..MaxDecLen}
SampleCounts == 0..(2 * MaxDecLen + 1)

\* x & m # 0 for a one-bit mask m.
BitSet(x, m) == (x \div m) % 2 = 1

\* max(lo, min(hi, x)), lines 110 and 118.
Clamp(lo, hi, x) == IF x < lo THEN lo ELSE IF x > hi THEN hi ELSE x

\* Lines 94-97: the nibble of sample n, low nibble first.
Nibble(bytes, n) ==
    IF n % 2 = 0
    THEN bytes[(n \div 2) + 1] % 16
    ELSE (bytes[(n \div 2) + 1] \div 16) % 16

\* Lines 99-106.
Delta(step, nibble) ==
    (step \div 8)
    + (IF BitSet(nibble, 4) THEN step ELSE 0)
    + (IF BitSet(nibble, 2) THEN step \div 2 ELSE 0)
    + (IF BitSet(nibble, 1) THEN step \div 4 ELSE 0)

\* Lines 108-111: the predictor moved by delta, down if the sign bit is set.
Moved(predicted, nibble, step) ==
    IF BitSet(nibble, 8)
    THEN predicted - Delta(step, nibble)
    ELSE predicted + Delta(step, nibble)

\* Lines 108-112: the new predictor.
Predict(predicted, nibble, step) ==
    Clamp(0 - 32768, 32767, Moved(predicted, nibble, step))

\* Lines 113-115: predicted_sample & 0xFFFF, low byte then high byte.
SampleLE(predicted) ==
    LET sample_le == predicted % 65536
    IN  <<sample_le % 256, (sample_le \div 256) % 256>>

InitDecode ==
    /\ main_pc = "decode"
    /\ pc = "idle"
    /\ openai_client = FALSE
    /\ SyncLocals
    /\ dec_pc = "loop"
    /\ ima_data \in DecInputs
    /\ sample_count \in SampleCounts
    /\ sample_index = 0
    /\ predicted_sample = 0
    /\ step_index = 0
    /\ output = [k \in 1..(2 * sample_count) |-> 0]
    /\ write_position = 0
    /\ pcm = <<>>

\* The loop goes on: there is a sample left to produce and a byte to read.
MoreSamples ==
    /\ sample_index < sample_count
    /\ sample_index \div 2 < Len(ima_data)

\* One sample with the predictor left unclamped.
DecodeStep_NoClamp ==
    /\ dec_pc = "loop"
    /\ MoreSamples
    /\ LET nibble == Nibble(ima_data, sample_index)
           step == ADPCM_STEP_TABLE[step_index + 1]
           sample == Moved(predicted_sample, nibble, step)
       IN  /\ predicted_sample' = sample
           /\ output' = [output EXCEPT
                           ![write_position + 1] = SampleLE(sample)[1],
                           ![write_position + 2] = SampleLE(sample)[2]]
           /\ step_index' =
                Clamp(0, 88, step_index + ADPCM_INDEX_TABLE[nibble + 1])
    /\ write_position' = write_position + 2
    /\ sample_index' = sample_index + 1
    /\ UNCHANGED <<dec_pc, ima_data, sample_count, pcm, main_pc, syncVars>>

\* Lines 91-118: one sample.
DecodeStep ==
    /\ dec_pc = "loop"
    /\ MoreSamples
    /\ LET nibble == Nibble(ima_data, sample_index)
           step == ADPCM_STEP_TABLE[step_index + 1]
           sample == Predict(predicted_sample, nibble, step)
       IN  /\ predicted_sample' = sample
           /\ output' = [output EXCEPT
                           ![write_position + 1] = SampleLE(sample)[1],
                           ![write_position + 2] = SampleLE(sample)[2]]
           /\ step_index' =
                Clamp(0, 88, step_index + ADPCM_INDEX_TABLE[nibble + 1])
    /\ write_position' = write_position + 2
    /\ sample_index' = sample_index + 1
    /\ UNCHANGED <<dec_pc, ima_data, sample_count, pcm, main_pc, syncVars>>

\* The whole output buffer returned, written or not.
DecodeReturn_NoSlice ==
    /\ dec_pc = "loop"
    /\ ~MoreSamples
    /\ pcm' = output
    /\ dec_pc' = "done"
    /\ UNCHANGED <<ima_data, sample_count, sample_index, predicted_sample,
                   step_index, output, write_position, main_pc, syncVars>>

\* Lines 91-93 and 120: the loop ends or breaks; the written part is returned.
DecodeReturn ==
    /\ dec_pc = "loop"
    /\ ~MoreSamples
    /\ pcm' = SubSeq(output, 1, write_position)
    /\ dec_pc' = "done"
    /\ UNCHANGED <<ima_data, sample_count, sample_index, predicted_sample,
                   step_index, output, write_position, main_pc, syncVars>>

NextDecode ==
    \/ DecodeStep
    \/ DecodeReturn

SpecDecode == InitDecode /\ [][NextDecode]_vars

(***************************************************************************)
(* Properties of sync_recordings.                                          *)
(***************************************************************************)
Subscribed == {"write_request", "sleep", "read_info", "waiting", "stop_notify"}
AckPending == {"ack_empty", "ack_write"}
PayloadInUse == {"encode", "ack_write", "transcribe"}
StreamTimeouts == {"stall", "total"}

\* C1 (the "only if" half; as claimed): whenever ACK_RECEIVED is written for
\* the current index, the device declared size 0 for it in the attempt that
\* ended, or that attempt received the full declared size.  No recording
\* is acknowledged when its attempts ended in a timeout before the size
\* was read.
C1_AckOnlyIfZeroOrFull ==
    pc \in AckPending =>
        \/ size_read = 0
        \/ size_read > 0 /\ received_total_bytes >= size_read

\* C2 (as claimed): every session that returns has attempted SYNC_DONE
\* exactly once: after a normal end of the index loop, after a failed
\* acknowledge write, and when the device reports zero recordings.
C2_SyncDoneExactlyOnce ==
    pc = "returned" => sync_done_writes = 1

\* C2 (amended): SYNC_DONE is attempted at most once per session, and a
\* session that returns has attempted it exactly when the index loop ran to
\* its end (file_count > 0 and every index acknowledged); it is not
\* attempted for zero recordings, after a failed acknowledge write, or when
\* the session raises.
C2_SyncDoneOnlyAfterLoop ==
    /\ sync_done_writes \in {0, 1}
    /\ pc = "raised" => sync_done_writes = 0
    /\ pc = "returned" =>
         /\ sync_done_writes = 1 <=> (file_count > 0 /\ synced = file_count)
         /\ sync_done_writes = 0 <=> (file_count = 0 \/ ack_failed)

C2_Witness ==
    /\ pc = "returned"
    /\ sync_done_writes = 1
    /\ file_count > 1
    /\ synced = file_count

\* C3 (as claimed): an index gets at most MAX_FILE_TRANSFER_ATTEMPTS
\* attempts, and once all of them have failed the session raises: the
\* recording is not acknowledged and no later index is requested.
C3_ExhaustedAttemptsAreFatal ==
    /\ attempt <= MAX_FILE_TRANSFER_ATTEMPTS
    /\ fails = MAX_FILE_TRANSFER_ATTEMPTS => pc = "raised"

\* C4: once the acknowledge write of a saved recording has failed, the
\* session has returned without raising, the failed ACK_RECEIVED is the
\* last command written, and synced is the count reached before that
\* recording (one per earlier index).
C4_AckFailureReturnsPartial ==
    ack_failed =>
        /\ pc = "returned"
        /\ synced = i
        /\ last_cmd = Command("ACK_RECEIVED", i, FALSE)
        /\ sync_done_writes = 0
        /\ Len(saved_recordings) >= 1
        /\ saved_recordings[Len(saved_recordings)] = i

C4_Witness ==
    /\ ack_failed
    /\ pc = "returned"
    /\ synced > 0

\* C5 (as claimed): a recording whose declared size was read as 0 is always
\* acknowledged and processing advances; the session never ends with an
\* exception while that recording is the current one.
C5_EmptyAlwaysAcknowledged ==
    ~(size_read = 0 /\ pc = "raised")

\* C5 (amended): a recording whose declared size was read as 0 never enters
\* the streaming wait, is not retried and produces no artifact; after
\* stop_notify the ACK_RECEIVED write is the next step, and when that write
\* succeeds synced grows by one and processing moves to the next index (or
\* to SYNC_DONE).  If stop_notify or the write raises, the exception leaves
\* sync_recordings and synced is unchanged.
C5_EmptyInv ==
    size_read = 0 =>
        /\ pc \in {"stop_notify", "ack_empty", "sync_done", "returned",
                   "raised"}
        /\ \A k \in 1..Len(saved_recordings) : saved_recordings[k] # i
        /\ audio_data = <<>>

C5_EmptyStep ==
    /\ (size_read = 0 /\ pc = "stop_notify" /\ pc' # pc) =>
           /\ pc' \in {"ack_empty", "raised"}
           /\ attempt' = attempt
    /\ (size_read = 0 /\ pc = "ack_empty" /\ pc' # pc) =>
           \/ pc' = "raised" /\ synced' = synced
           \/ /\ synced' = synced + 1
              /\ last_cmd' = Command("ACK_RECEIVED", i, TRUE)
              /\ saved_recordings' = saved_recordings
              /\ IF i + 1 < file_count
                 THEN i' = i + 1 /\ attempt' = 1 /\ pc' = "start_notify"
                 ELSE pc' = "sync_done"

C5_EmptyAckedWithoutStreaming ==
    [](C5_EmptyInv) /\ [][C5_EmptyStep]_vars

C5_Witness ==
    /\ size_read = 0
    /\ pc = "sync_done"
    /\ i > 0
    /\ synced = i + 1
    /\ last_cmd = Command("ACK_RECEIVED", i, TRUE)

\* C6: every attempt, a retry included, starts with no accumulated bytes,
\* no chunks counted and an empty chunk buffer, whatever the attempt before
\* it had received.
C6_RetryStartsEmpty ==
    pc = "start_notify" =>
        /\ received_total_bytes = 0
        /\ chunk_count = 0
        /\ received_chunks = <<>>

C6_Witness ==
    /\ pc = "start_notify"
    /\ attempt > 1
    /\ prev_bytes > 0

\* C7: the payload handed to the decoder has exactly the declared size S
\* and its k-th byte is the k-th byte the device streamed in the attempt
\* that succeeded; it is the first S bytes of the chunks notified in that
\* attempt, so an overrun is dropped and no byte of an earlier attempt is
\* in it.
C7_PayloadIsPrefixOfAttempt ==
    pc \in PayloadInUse =>
        /\ size_read > 0
        /\ Len(audio_data) = size_read
        /\ \A k \in 1..Len(audio_data) :
             /\ audio_data[k] = ByteOf(attempt, k - 1)
             /\ ByteAttempt(audio_data[k]) = attempt
        /\ audio_data = SubSeq(Join(delivered), 1, size_read)

C7_Witness ==
    /\ pc = "encode"
    /\ attempt > 1
    /\ prev_bytes > 0
    /\ Len(Join(delivered)) > size_read

\* C8 (as claimed): an attempt whose streaming wait ended in a stall or
\* total timeout is never followed by decode, persist or acknowledge: it
\* leads to a retry or to the fatal escalation only.
C8_TimedOutAttemptNeverUsed ==
    timed_out \in StreamTimeouts => pc \in {"stop_notify", "raised"}

\* C8 (amended): an attempt whose streaming wait ended in a stall or total
\* timeout is given up, with nothing of it kept as payload and a retry or
\* an exception as the next step, unless the chunks notified after the
\* timer of the wait fired (before the coroutine resumed, or while
\* stop_notify was in progress) brought the total up to the declared size;
\* only then is the attempt decoded, persisted and acknowledged.
C8_TimedOutInv ==
    /\ (timed_out \in StreamTimeouts /\ pc \notin {"stop_notify", "raised"})
          => /\ size_read > 0
             /\ received_total_bytes >= size_read
             /\ Len(audio_data) = size_read
    /\ (timed_out \in StreamTimeouts /\ bytes_at_timeout >= size_read)
          => chunk_received

C8_TimedOutStep ==
    (/\ timed_out \in StreamTimeouts
     /\ pc = "stop_notify"
     /\ pc' # pc
     /\ received_total_bytes < size_read) =>
        /\ audio_data' = <<>>
        /\ \/ pc' = "raised"
           \/ pc' = "start_notify" /\ attempt' = attempt + 1

C8_TimedOutAttemptUsedOnlyIfCompletedLate ==
    [](C8_TimedOutInv) /\ [][C8_TimedOutStep]_vars

C8_Witness ==
    /\ timed_out \in StreamTimeouts
    /\ pc = "raised"
    /\ fails = MAX_FILE_TRANSFER_ATTEMPTS
    /\ bytes_at_timeout > 0
    /\ bytes_at_timeout < size_read
    /\ audio_data = <<>>

\* C9: at most one callback is installed at a time, and one is installed
\* only between a successful start_notify and the stop_notify of the same
\* attempt: none when the next start_notify is called, and none when
\* sync_recordings has returned or raised.
C9_OneSubscription ==
    /\ subscriptions \in {0, 1}
    /\ subscriptions = 1 <=> pc \in Subscribed

C9_Witness ==
    /\ pc = "raised"
    /\ subscriptions = 0
    /\ attempt > 1
    /\ exc = "error"

\* C10: every wait for the next chunk is started before the total deadline,
\* counted from the start of the current attempt, has elapsed, and its
\* timeout is the smaller of the stall timeout and the time left to that
\* deadline.
C10_WaitUsesMinOfDeadlines ==
    pc = "waiting" =>
        LET elapsed == wait_begin - attempt_start
            remaining == TotalTimeout - elapsed
        IN  /\ elapsed >= 0
            /\ remaining > 0
            /\ wait_timeout > 0
            /\ wait_timeout <= StallTimeout
            /\ wait_timeout <= remaining
            /\ wait_timeout = StallTimeout
                 \/ wait_timeout = remaining

C10_Witness ==
    /\ pc = "waiting"
    /\ wait_timeout < StallTimeout
    /\ attempt > 1

(***************************************************************************)
(* C11: main never ends on its own: however a session ends, retry-budget   *)
(* exhaustion for a recording included, control returns to scanning.  The  *)
(* RuntimeError of line 313 is not caught by main, so this is violated.    *)
(***************************************************************************)
C11_SessionEndReturnsToScan == main_pc = "crashed" => error # "RuntimeError"

(***************************************************************************)
(* C12: transcription is switched off for the rest of the session if and   *)
(* only if a transcription failed with an authentication error.  Line 360  *)
(* switches it off after any other OpenAIError too, so this is violated.   *)
(***************************************************************************)
C12_DisabledOnlyByAuthFailure == skip_transcription <=> auth_failed

(***************************************************************************)
(* C13: a recording whose declared size is positive is acknowledged only   *)
(* after its payload was decoded, encoded and saved.  Violated through the *)
(* defect of C1: the size read in an earlier attempt is forgotten when the *)
(* last attempt times out before its FILE_INFO read, and the recording is  *)
(* then acknowledged as empty with nothing saved.                          *)
(***************************************************************************)
C13_AckOnlyAfterPersist ==
    (pc \in AckPending /\ sizes_seen # {} /\ 0 \notin sizes_seen)
        => /\ pc = "ack_write"
           /\ saved_recordings # <<>>
           /\ saved_recordings[Len(saved_recordings)] = i

(***************************************************************************)
(* C14: a failure of the SYNC_DONE write is not fatal: whatever the write  *)
(* does, sync_recordings returns, and with the synced count and the list   *)
(* of saved recordings it had before the write.                            *)
(***************************************************************************)
C14_SyncDoneInv ==
    last_cmd.cmd = "SYNC_DONE" => (pc = "returned" /\ error = "none")

C14_SyncDoneStep ==
    (pc = "sync_done" /\ pc' # pc) =>
        /\ pc' = "returned"
        /\ last_cmd'.cmd = "SYNC_DONE"
        /\ synced' = synced
        /\ saved_recordings' = saved_recordings
        /\ error' = "none"

C14_SyncDoneFailureNotFatal ==
    [](C14_SyncDoneInv) /\ [][C14_SyncDoneStep]_vars

C14_Witness ==
    /\ pc = "returned"
    /\ last_cmd = Command("SYNC_DONE", i, FALSE)
    /\ synced = file_count
    /\ saved_recordings # <<>>

(***************************************************************************)
(* C15: decode_ima_adpcm returns exactly 2 * min(sample_count,             *)
(* 2 * len(data)) bytes: it stops after sample_count samples or when the   *)
(* nibbles run out, whichever comes first.                                 *)
(***************************************************************************)
C15_OutputLength ==
    dec_pc = "done" =>
        /\ Len(pcm) = 2 * Min(sample_count, 2 * Len(ima_data))
        /\ pcm = SubSeq(output, 1, Len(pcm))

C15_Witness ==
    /\ dec_pc = "done"
    /\ Len(ima_data) > 0
    /\ sample_count > 2 * Len(ima_data)
    /\ Len(pcm) = 4 * Len(ima_data)

\* The signed value of two bytes read as 16-bit little-endian.
Signed16(lo, hi) ==
    IF lo + 256 * hi >= 32768 THEN lo + 256 * hi - 65536 ELSE lo + 256 * hi

(***************************************************************************)
(* C16: after every nibble the predictor is in -32768..32767 and           *)
(* step_index in 0..88, and the sample just emitted is the predictor as    *)
(* two bytes, 16-bit little-endian two's complement.                       *)
(***************************************************************************)
C16_PredictorAndStepInRange ==
    /\ predicted_sample \in (0 - 32768)..32767
    /\ step_index \in 0..88
    /\ write_position = 2 * sample_index
    /\ write_position > 0 =>
           /\ output[write_position - 1] \in 0..255
           /\ output[write_position] \in 0..255
           /\ Signed16(output[write_position - 1], output[write_position])
                  = predicted_sample

C16_Witness ==
    /\ dec_pc = "loop"
    /\ predicted_sample = 0 - 32768
    /\ step_index = 88
    /\ output[write_position - 1] = 0
    /\ output[write_position] = 128

\* The awaits of one transfer attempt.
InAttempt ==
    {"start_notify", "write_request", "sleep", "read_info", "waiting",
     "stop_notify"}

(***************************************************************************)
(* C17: every attempt ends, and one whose bytes never reach the declared   *)
(* size ends with a total timeout no later than the total deadline counted *)
(* from the attempt's start.  As stated this fails: the REQUEST_NEXT write *)
(* and the FILE_INFO read are not cut short by the deadline, and when they *)
(* return after it the total timeout is raised late.                       *)
(***************************************************************************)
C17_TotalTimeoutByDeadline ==
    (pc = "stop_notify" /\ timed_out = "total")
        => now <= transfer_start + TotalTimeout

\* C17 (amended): a wait for the next chunk never lasts beyond the total
\* deadline counted from transfer_start, so an attempt that has entered the
\* streaming wait ends, by stall or total timeout or completion, no later
\* than that deadline; the time of the REQUEST_NEXT write and the FILE_INFO
\* read counts towards the deadline but these calls are not interrupted by
\* it.  Provided awaited calls return, every attempt ends, and the
\* processing of every index ends with synced incremented, with a return
\* or with an exception.
C17_WaitInv ==
    pc = "waiting" =>
        /\ now <= wait_begin + wait_timeout
        /\ wait_begin + wait_timeout
              <= transfer_start + TotalTimeout

C17_WaitStep ==
    (pc = "waiting" /\ pc' = "stop_notify") =>
        /\ now' <= transfer_start + TotalTimeout
        /\ timed_out' = "total"
              => now' = transfer_start + TotalTimeout

\* Index k is being processed and its outcome is not known yet.
C17_Busy(k) ==
    /\ i = k
    /\ pc \in InAttempt \cup {"ack_empty", "encode", "ack_write"}

C17_AttemptEnds ==
    \A k \in 0..(MaxFiles - 1) : \A a \in 1..MAX_FILE_TRANSFER_ATTEMPTS :
        []<>~(pc \in InAttempt /\ i = k /\ attempt = a)

C17_IndexEnds ==
    \A k \in 0..(MaxFiles - 1) : []<>~C17_Busy(k)

C17_EveryAttemptTerminates ==
    /\ [](C17_WaitInv)
    /\ [][C17_WaitStep]_vars
    /\ C17_AttemptEnds
    /\ C17_IndexEnds

C17_Witness ==
    /\ pc = "stop_notify"
    /\ timed_out = "total"
    /\ now = transfer_start + TotalTimeout
    /\ chunk_count > 0
    /\ expected_size > 0
    /\ received_total_bytes < expected_size

(***************************************************************************)
(* C18: within one attempt the callback neither drops nor duplicates a     *)
(* chunk: the buffer holds every chunk delivered since the subscription,   *)
(* those delivered before the size was read included, once each and in     *)
(* delivery order; the byte total is the sum of the lengths of the         *)
(* buffered chunks and never decreases during the attempt.                 *)
(***************************************************************************)
C18_BufferInv ==
    /\ received_chunks = delivered
    /\ chunk_count = Len(received_chunks)
    /\ received_total_bytes = Len(Join(received_chunks))

C18_BufferStep ==
    (i' = i /\ attempt' = attempt) =>
        /\ received_total_bytes' >= received_total_bytes
        /\ Len(received_chunks') >= Len(received_chunks)
        /\ SubSeq(received_chunks', 1, Len(received_chunks)) = received_chunks

C18_NoChunkDroppedOrDuplicated ==
    [](C18_BufferInv) /\ [][C18_BufferStep]_vars

C18_Witness ==
    /\ pc = "read_info"
    /\ size_read = NoSize
    /\ Len(received_chunks) > 1
    /\ received_total_bytes = MaxChunkLen
    /\ Len(received_chunks[1]) = 0

(***************************************************************************)
(* C19: commands are written one index after the other: REQUEST_NEXT for   *)
(* an index is written only when every earlier index was acknowledged      *)
(* successfully, each ACK_RECEIVED write is preceded by 1 to 3             *)
(* REQUEST_NEXT writes since the previous one, and nothing is written      *)
(* after SYNC_DONE.  A write counts when it is issued, whether or not it   *)
(* then fails.                                                             *)
(***************************************************************************)
C19_CommandInv ==
    /\ requests \in 0..MAX_FILE_TRANSFER_ATTEMPTS
    /\ last_cmd.cmd = "REQUEST_NEXT" =>
           /\ last_cmd.idx = i
           /\ acks_ok = i
           /\ requests \in {attempt - 1, attempt}
    /\ pc \in AckPending => requests \in 1..MAX_FILE_TRANSFER_ATTEMPTS
    /\ sync_done_writes > 0 =>
           /\ sync_done_writes = 1
           /\ last_cmd.cmd = "SYNC_DONE"
           /\ pc = "returned"

C19_CommandStep ==
    /\ requests' > requests =>
           /\ requests' = requests + 1
           /\ last_cmd' = Command("REQUEST_NEXT", i, last_cmd'.ok)
           /\ acks_ok = i
           /\ sync_done_writes = 0
    /\ requests' < requests =>
           /\ last_cmd' = Command("ACK_RECEIVED", i, last_cmd'.ok)
           /\ requests \in 1..MAX_FILE_TRANSFER_ATTEMPTS
           /\ requests' = 0
           /\ sync_done_writes = 0
    /\ acks_ok' # acks_ok =>
           /\ acks_ok' = acks_ok + 1
           /\ acks_ok = i
           /\ last_cmd' = Command("ACK_RECEIVED", i, TRUE)
    /\ sync_done_writes > 0 => last_cmd' = last_cmd

C19_CommandsInIndexOrder ==
    [](C19_CommandInv) /\ [][C19_CommandStep]_vars

C19_Witness ==
    /\ last_cmd = Command("REQUEST_NEXT", 1, TRUE)
    /\ requests = MAX_FILE_TRANSFER_ATTEMPTS
    /\ acks_ok = 1
    /\ pc = "waiting"

(***************************************************************************)
(* C20: synced is the number of ACK_RECEIVED writes that have succeeded;   *)
(* it never decreases and never exceeds file_count.  The saved recordings  *)
(* outnumber the acknowledged saved ones by at most one: by one while the  *)
(* acknowledge of the recording just saved is being written and after     *)
(* that write has failed, which ends the session.                          *)
(***************************************************************************)
C20_CountInv ==
    /\ synced = acks_ok
    /\ synced <= file_count
    /\ acked_saved <= synced
    /\ Len(saved_recordings) - acked_saved \in {0, 1}
    /\ Len(saved_recordings) - acked_saved = 1
          <=> (pc = "ack_write" \/ (pc = "returned" /\ ack_failed))
    /\ pc = "returned" => (ack_failed \/ synced = file_count)

C20_CountStep ==
    /\ synced' >= synced
    /\ synced' <= synced + 1
    /\ synced' = synced + 1 => last_cmd' = Command("ACK_RECEIVED", i, TRUE)
    /\ Len(saved_recordings') >= Len(saved_recordings)

C20_SyncedCountsSuccessfulAcks ==
    [](C20_CountInv) /\ [][C20_CountStep]_vars

C20_Witness ==
    /\ pc = "returned"
    /\ ack_failed
    /\ synced = 1
    /\ acked_saved = 1
    /\ Len(saved_recordings) = 2
    /\ file_count = 2

====
